---- MODULE Spec2Model ----
(***************************************************************************)
(* Model of the batch ETL pipeline (Supabase/PostgreSQL -> ClickHouse):    *)
(*   src/src/utils/retry.py            retry_on_failure                    *)
(*   src/src/utils/connections.py      connect_to_supabase/_clickhouse     *)
(*   src/src/processing/data_extraction.py  listing, batched extraction    *)
(*   src/src/processing/data_cleaning.py    the transform stages           *)
(*   src/src/utils/clickhouse_utils.py      ensure / check / load          *)
(*   src/src/processing/etl_process.py      the orchestrator               *)
(*                                                                         *)
(* Text is modelled as sequences of one-character strings so that case     *)
(* folding, numeric parsing, JSON rendering and quote escaping are         *)
(* computed, not assumed.                                                  *)
(*                                                                         *)
(* etl_process.py imports load_data_to_clickhouse while clickhouse_utils   *)
(* defines only load_data_to_ClickHouse: as written the import raises      *)
(* ImportError.  The model follows the body of etl_process with that name  *)
(* unbound, as it is when every other name of the import is bound: the     *)
(* call at line 55 raises NameError before anything is sent to the sink.   *)
(* load_data_to_ClickHouse itself is modelled as the function it is and    *)
(* applied directly to transformed batches (ApplyLoad).  The sink is a     *)
(* table outside the program and may hold rows before the first run.       *)
(***************************************************************************)
EXTENDS Integers, Sequences, FiniteSets, TLC

VARIABLES
    pc,          \* position of etl_process
    run,         \* number of the current run of etl_process (0 before the first)
    batchSize,   \* BATCH_SIZE, read from the environment at import
    srcTables,   \* table names of private_schema, in listing order
    tables,      \* etl_process: tables (result of list_supabase_tables)
    ti,          \* etl_process: index of table_name in tables
    cursorPos,   \* rows of the current SELECT already fetched
    df,          \* batch_df / transformed_df in flight
    fn,          \* retry wrapper: func.__name__ of the wrapped call in progress
    retries,     \* retry wrapper: retries
    wtrace,      \* history: what the wrapper in progress has done so far
    conn,        \* source connection: "none", "open", "closed"
    client,      \* sink client: "none", "open", "closed"
    exc,         \* exception propagating out of etl_process ("" when none)
    sink,        \* rows of the ClickHouse table grupox, in insertion order
    sinkAtStart, \* history: sink when the current run started
    yielded,     \* history: batches yielded by the current extraction
    trace,       \* history: events of the current run, in program order
    tin,         \* transform harness: input (batch, table name)
    tout,        \* transform harness: result of transform_data on tin
    sout,        \* transform harness: results of single stages on tin
    store        \* store_in_supabase: its locals and the destination table

vars == <<pc, run, batchSize, srcTables, tables, ti, cursorPos, df, fn, retries, wtrace,
          conn, client, exc, sink, sinkAtStart, yielded, trace, tin, tout, sout, store>>

etlVars == <<pc, run, batchSize, srcTables, tables, ti, cursorPos, df, fn, retries, wtrace,
             conn, client, exc, sink, sinkAtStart, yielded, trace>>

(***************************************************************************)
(* Bounds of the model.                                                    *)
(***************************************************************************)
MaxRuns == 2        \* consecutive runs of etl_process
MaxTables == 2      \* tables listed in private_schema
MaxBatchSize == 2   \* BATCH_SIZE ranges over 1..MaxBatchSize
MaxRows == 2        \* rows of a batch handed to the transform harness

(***************************************************************************)
(* Program constants.                                                      *)
(***************************************************************************)
MAX_RETRIES == 3
AMOUNT_MIN == 0
AMOUNT_MAX == 1000000

(***************************************************************************)
(* Generic sequence helpers.                                               *)
(***************************************************************************)
Range(s) == {s[i] : i \in 1..Len(s)}

RECURSIVE SelectIdx(_, _, _)
\* indices i of 1..n, ascending, for which keep[i]
SelectIdx(keep, i, n) ==
    IF i > n THEN <<>>
    ELSE (IF keep[i] THEN <<i>> ELSE <<>>) \o SelectIdx(keep, i + 1, n)

RECURSIVE Flatten(_)
Flatten(ss) == IF ss = <<>> THEN <<>> ELSE Head(ss) \o Flatten(Tail(ss))

SeqsUpTo(S, n) == UNION {[1..k -> S] : k \in 0..n}

RECURSIVE Perms(_)
\* all orderings of the finite set S
Perms(S) ==
    IF S = {} THEN {<<>>}
    ELSE UNION {{<<x>> \o p : p \in Perms(S \ {x})} : x \in S}

(***************************************************************************)
(* Characters and text.                                                    *)
(***************************************************************************)
Digits == <<"0", "1", "2", "3", "4", "5", "6", "7", "8", "9">>
UpperChars == <<"A", "B", "C", "I", "O">>
LowerChars == <<"a", "b", "c", "i", "o">>
\* code-point order of the characters the model uses
CharOrder == <<" ", "'", "-", "0", "1", "2", "3", "4", "5", "6", "7", "8", "9",
               ":", "A", "B", "C", "I", "O", "a", "b", "c", "e", "i", "n", "o",
               "s", "t", "v", "x">>

IndexOf(seq, x) == IF x \in Range(seq) THEN CHOOSE i \in 1..Len(seq) : seq[i] = x ELSE 0

\* str.lower on one character
LowerChar(c) == IF IndexOf(UpperChars, c) > 0 THEN LowerChars[IndexOf(UpperChars, c)] ELSE c
\* str.lower
Lower(s) == [i \in 1..Len(s) |-> LowerChar(s[i])]

Code(c) == IndexOf(CharOrder, c)

RECURSIVE StrLess(_, _)
\* Python's str < str (lexicographic by code point)
StrLess(a, b) ==
    IF b = <<>> THEN FALSE
    ELSE IF a = <<>> THEN TRUE
    ELSE IF Head(a) # Head(b) THEN Code(Head(a)) < Code(Head(b))
    ELSE StrLess(Tail(a), Tail(b))

RECURSIVE NatToText(_)
NatToText(n) == IF n < 10 THEN <<Digits[n + 1]>> ELSE NatToText(n \div 10) \o <<Digits[(n % 10) + 1]>>
\* str(int)
IntToText(n) == IF n < 0 THEN <<"-">> \o NatToText(0 - n) ELSE NatToText(n)

IsDigit(c) == IndexOf(Digits, c) > 0
IsNatText(s) == s # <<>> /\ \A i \in 1..Len(s) : IsDigit(s[i])
\* text that pd.to_numeric parses as an integer (optional sign, decimal digits)
IsIntText(s) == IsNatText(s) \/ (s # <<>> /\ Head(s) = "-" /\ IsNatText(Tail(s)))
RECURSIVE TextToNat(_)
TextToNat(s) == IF s = <<>> THEN 0 ELSE 10 * TextToNat(SubSeq(s, 1, Len(s) - 1)) + (IndexOf(Digits, s[Len(s)]) - 1)
TextToInt(s) == IF Head(s) = "-" THEN 0 - TextToNat(Tail(s)) ELSE TextToNat(s)

(***************************************************************************)
(* Scalar values of a cell.                                                *)
(*   null : None / NaN          str : Python str      int : int64          *)
(*   float: float64, n counts   ts  : timestamp (day of January 2024)      *)
(*          hundredths                                                     *)
(*   nat  : NaT                                                            *)
(***************************************************************************)
Null == [k |-> "null", s |-> <<>>, n |-> 0]
NaT == [k |-> "nat", s |-> <<>>, n |-> 0]
VStr(s) == [k |-> "str", s |-> s, n |-> 0]
VInt(n) == [k |-> "int", s |-> <<>>, n |-> n]
VFloat(n) == [k |-> "float", s |-> <<>>, n |-> n]
VTs(n) == [k |-> "ts", s |-> <<>>, n |-> n]

\* the value of a numeric cell in hundredths
Hundredths(v) == IF v.k = "int" THEN v.n * 100 ELSE v.n

\* pandas isna
IsNull(v) == v.k \in {"null", "nat"}

(***************************************************************************)
(* Data frames: column names, one dtype per column, rows of cells.  err is *)
(* the exception a stage raised ("" when none); a frame with err set is    *)
(* passed through the remaining stages unchanged.                          *)
(***************************************************************************)
Frame(cols, dtypes, rows) == [cols |-> cols, dtypes |-> dtypes, rows |-> rows, err |-> ""]
Raised(f, e) == [f EXCEPT !.err = e]

HasCol(f, c) == c \in Range(f.cols)
ColIdx(f, c) == IndexOf(f.cols, c)
Column(f, c) == [i \in 1..Len(f.rows) |-> f.rows[i][ColIdx(f, c)]]
KeepRows(f, keep) ==
    LET idx == SelectIdx(keep, 1, Len(f.rows))
    IN [f EXCEPT !.rows = [j \in 1..Len(idx) |-> f.rows[idx[j]]]]

\* dtype pandas infers for a column of Python values
InferDtype(vals) ==
    IF \E v \in vals : v.k = "str" THEN "object"
    ELSE IF \E v \in vals : v.k \in {"ts", "nat"} THEN "datetime64"
    ELSE IF \E v \in vals : v.k = "float" THEN "float64"
    ELSE IF \E v \in vals : v.k = "int"
         THEN (IF \E v \in vals : v.k = "null" THEN "float64" ELSE "int64")
    ELSE "object"

\* a cell as stored in a column of the given dtype
Coerce(v, dtype) ==
    IF dtype = "float64" /\ v.k = "int" THEN VFloat(Hundredths(v))
    ELSE IF dtype = "datetime64" /\ v.k = "null" THEN NaT
    ELSE v

\* pd.DataFrame(rows, columns=[desc[0] for desc in cursor.description])
DataFrame(cols, rows) ==
    LET dt == [j \in 1..Len(cols) |-> InferDtype({rows[i][j] : i \in 1..Len(rows)})]
    IN Frame(cols, dt,
             [i \in 1..Len(rows) |-> [j \in 1..Len(cols) |-> Coerce(rows[i][j], dt[j])]])

(***************************************************************************)
(* Stage 1: clean_data - df.dropna(inplace=True)                           *)
(***************************************************************************)
\* variant: dropna(how='all'), a row goes only when every cell of it is null
clean_data_all(f) ==
    KeepRows(f, [i \in 1..Len(f.rows) |-> \E j \in 1..Len(f.cols) : ~IsNull(f.rows[i][j])])

clean_data(f) ==
    KeepRows(f, [i \in 1..Len(f.rows) |-> \A j \in 1..Len(f.cols) : ~IsNull(f.rows[i][j])])

(***************************************************************************)
(* Stage 2: normalize_data - lower-case every str cell, then render the    *)
(* datetime columns with strftime('%Y-%m-%d %H:%M:%S').                    *)
(***************************************************************************)
\* Timestamp.strftime('%Y-%m-%d %H:%M:%S') for day n (1..9) of January 2024
Strftime(n) ==
    <<"2", "0", "2", "4", "-", "0", "1", "-", "0", Digits[n + 1],
      " ", "0", "0", ":", "0", "0", ":", "0", "0">>

NormalizeCell(v, dtype) ==
    IF v.k = "str" THEN VStr(Lower(v.s))
    ELSE IF dtype = "datetime64" /\ v.k = "ts" THEN VStr(Strftime(v.n))
    ELSE v

normalize_data(f) ==
    [f EXCEPT
       !.rows = [i \in 1..Len(f.rows) |->
                   [j \in 1..Len(f.cols) |-> NormalizeCell(f.rows[i][j], f.dtypes[j])]],
       !.dtypes = [j \in 1..Len(f.cols) |->
                     IF f.dtypes[j] = "datetime64" THEN "object" ELSE f.dtypes[j]]]

(***************************************************************************)
(* Stage 3: aggregate_data - groupby('category', as_index=False)           *)
(* ['amount'].sum() when both columns are present.                         *)
(***************************************************************************)
\* order of group keys (groupby sorts them)
KeyLess(a, b) == IF a.k = "str" /\ b.k = "str" THEN StrLess(a.s, b.s) ELSE a.n < b.n

RECURSIVE SortKeys(_)
SortKeys(S) ==
    IF S = {} THEN <<>>
    ELSE LET m == CHOOSE x \in S : \A y \in S \ {x} : KeyLess(x, y)
         IN <<m>> \o SortKeys(S \ {m})

RECURSIVE SumCells(_)
\* Series.sum over the cells of one group, in row order (str cells concatenate)
SumCells(cells) ==
    IF Len(cells) = 1 THEN cells[1]
    ELSE LET r == SumCells(SubSeq(cells, 1, Len(cells) - 1))
             x == cells[Len(cells)]
         IN IF r.k = "str" THEN VStr(r.s \o x.s)
            ELSE IF r.k = "float" \/ x.k = "float"
                 THEN VFloat(Hundredths(r) + Hundredths(x))
            ELSE VInt(r.n + x.n)

GroupSum(f, key) ==
    LET cat == Column(f, "category")
        amt == Column(f, "amount")
        idx == SelectIdx([i \in 1..Len(f.rows) |-> cat[i] = key], 1, Len(f.rows))
    IN SumCells([j \in 1..Len(idx) |-> amt[idx[j]]])

aggregate_data(f) ==
    IF HasCol(f, "category") /\ HasCol(f, "amount")
    THEN LET keys == SortKeys(Range(Column(f, "category")))
         IN Frame(<<"category", "amount">>,
                  <<f.dtypes[ColIdx(f, "category")], f.dtypes[ColIdx(f, "amount")]>>,
                  [g \in 1..Len(keys) |-> <<keys[g], GroupSum(f, keys[g])>>])
    ELSE f

(***************************************************************************)
(* Stage 4: filter_data - df[df['status'] == 'active']                     *)
(***************************************************************************)
ACTIVE == <<"a", "c", "t", "i", "v", "e">>

filter_data(f) ==
    IF HasCol(f, "status")
    THEN KeepRows(f, [i \in 1..Len(f.rows) |-> Column(f, "status")[i] = VStr(ACTIVE)])
    ELSE f

(***************************************************************************)
(* Stage 5: convert_data_types - pd.to_numeric on each object column       *)
(* (ValueError leaves the column as it is), then pd.to_datetime(...,       *)
(* errors='coerce', dayfirst=True) on each column whose name contains      *)
(* 'date'.                                                                 *)
(***************************************************************************)
\* the column names of the model that contain the substring 'date'
DateColumns == {"date_created", "date_time"}

\* pd.to_numeric succeeds on an object column when every cell parses
NumericColumn(f, j) ==
    \A i \in 1..Len(f.rows) :
        \/ f.rows[i][j].k \in {"int", "float"}
        \/ f.rows[i][j].k = "str" /\ IsIntText(f.rows[i][j].s)

ToNumericCell(v) == IF v.k = "str" THEN VInt(TextToInt(v.s)) ELSE v

\* day d (1..9) of January 2024 written as text s, or 0 when s is no such date
DayOf(s) ==
    IF \E d \in 1..9 : s = Strftime(d) \/ s = SubSeq(Strftime(d), 1, 10)
    THEN CHOOSE d \in 1..9 : s = Strftime(d) \/ s = SubSeq(Strftime(d), 1, 10)
    ELSE 0

\* one cell under pd.to_datetime(errors='coerce'): unparseable text becomes NaT,
\* a number is taken as nanoseconds since the epoch (day 0)
ToDatetimeCell(v) ==
    IF v.k = "str" THEN (IF DayOf(v.s) > 0 THEN VTs(DayOf(v.s)) ELSE NaT)
    ELSE IF v.k \in {"int", "float"} THEN VTs(0)
    ELSE IF v.k = "ts" THEN v
    ELSE NaT

ToNumericStep(f) ==
    LET conv == [j \in 1..Len(f.cols) |-> f.dtypes[j] = "object" /\ NumericColumn(f, j)]
    IN [f EXCEPT
          !.rows = [i \in 1..Len(f.rows) |->
                      [j \in 1..Len(f.cols) |->
                         IF conv[j] THEN ToNumericCell(f.rows[i][j]) ELSE f.rows[i][j]]],
          !.dtypes = [j \in 1..Len(f.cols) |-> IF conv[j] THEN "int64" ELSE f.dtypes[j]]]

ToDatetimeStep(f) ==
    LET conv == [j \in 1..Len(f.cols) |-> f.cols[j] \in DateColumns]
    IN [f EXCEPT
          !.rows = [i \in 1..Len(f.rows) |->
                      [j \in 1..Len(f.cols) |->
                         IF conv[j] THEN ToDatetimeCell(f.rows[i][j]) ELSE f.rows[i][j]]],
          !.dtypes = [j \in 1..Len(f.cols) |-> IF conv[j] THEN "datetime64" ELSE f.dtypes[j]]]

convert_data_types(f) == ToDatetimeStep(ToNumericStep(f))

(***************************************************************************)
(* Stage 6: remove_duplicates - df.drop_duplicates(inplace=True)           *)
(***************************************************************************)
remove_duplicates(f) ==
    KeepRows(f, [i \in 1..Len(f.rows) |-> \A h \in 1..(i - 1) : f.rows[h] # f.rows[i]])

(***************************************************************************)
(* Stage 7: map_fields - rename per {'old_column_name': 'new_column_name'} *)
(***************************************************************************)
map_fields(f) ==
    [f EXCEPT !.cols = [j \in 1..Len(f.cols) |->
                          IF f.cols[j] = "old_column_name" THEN "new_column_name"
                          ELSE f.cols[j]]]

(***************************************************************************)
(* Stage 8: validate_data - df[df['amount'].between(0, 1000000)]           *)
(***************************************************************************)
\* variant: the bounds are exclusive
Between_Exclusive(v, lo, hi) ==
    /\ v.k \in {"int", "float"}
    /\ lo * 100 < Hundredths(v)
    /\ Hundredths(v) < hi * 100

\* Series.between(lo, hi): lo <= v <= hi, False for NaN
Between(v, lo, hi) ==
    /\ v.k \in {"int", "float"}
    /\ lo * 100 <= Hundredths(v)
    /\ Hundredths(v) <= hi * 100

validate_data(f) ==
    IF ~HasCol(f, "amount") THEN f
    ELSE IF \E i \in 1..Len(f.rows) : Column(f, "amount")[i].k = "str"
         THEN Raised(f, "TypeError")   \* '>=' between str and int
    ELSE KeepRows(f, [i \in 1..Len(f.rows) |->
                        Between(Column(f, "amount")[i], AMOUNT_MIN, AMOUNT_MAX)])

(***************************************************************************)
(* Stage 9: json.dumps(x.to_dict()).replace("'", "\\'") per row.  The      *)
(* payload is a sequence of characters; a column name is one token.        *)
(***************************************************************************)
\* variant: json.dumps is given default=str and encodes every value
JsonEncodable_Any(v) == TRUE

\* json.dumps can encode str, int and float; a Timestamp or NaT raises TypeError
JsonEncodable(v) == v.k \in {"str", "int", "float", "null"}

RECURSIVE JsonEscape(_)
\* json string escaping of '"' and '\'
JsonEscape(s) ==
    IF s = <<>> THEN <<>>
    ELSE (IF Head(s) \in {"\"", "\\"} THEN <<"\\", Head(s)>> ELSE <<Head(s)>>)
         \o JsonEscape(Tail(s))

\* a row taken across numeric columns only is upcast to their common dtype
RowAsFloat(f) ==
    /\ \A j \in 1..Len(f.cols) : f.dtypes[j] \in {"int64", "float64"}
    /\ \E j \in 1..Len(f.cols) : f.dtypes[j] = "float64"

\* float.__repr__ of h hundredths: 1 -> 0.01, 50 -> 0.5, 500 -> 5.0
FloatToText(h) ==
    LET a == IF h < 0 THEN 0 - h ELSE h
        frac == a % 100
    IN (IF h < 0 THEN <<"-">> ELSE <<>>) \o NatToText(a \div 100) \o <<".">>
       \o (IF frac % 10 = 0 THEN NatToText(frac \div 10)
           ELSE NatToText(frac \div 10) \o NatToText(frac % 10))

JsonValue(v, asFloat) ==
    IF v.k = "str" THEN <<"\"">> \o JsonEscape(v.s) \o <<"\"">>
    ELSE IF v.k = "int" /\ ~asFloat THEN IntToText(v.n)
    ELSE IF v.k \in {"int", "float"} THEN FloatToText(Hundredths(v))
    ELSE <<"N", "a", "N">>

RECURSIVE JsonMembers(_, _, _, _)
JsonMembers(cols, row, j, asFloat) ==
    IF j > Len(cols) THEN <<>>
    ELSE (IF j > 1 THEN <<",", " ">> ELSE <<>>)
         \o <<"\"", cols[j], "\"", ":", " ">> \o JsonValue(row[j], asFloat)
         \o JsonMembers(cols, row, j + 1, asFloat)

\* json.dumps(dict)
JsonDumps(cols, row, asFloat) == <<"{">> \o JsonMembers(cols, row, 1, asFloat) \o <<"}">>

RECURSIVE EscapeQuotes(_)
\* str.replace("'", "\\'")
EscapeQuotes(s) ==
    IF s = <<>> THEN <<>>
    ELSE (IF Head(s) = "'" THEN <<"\\", "'">> ELSE <<Head(s)>>) \o EscapeQuotes(Tail(s))

Payload(f, i) == EscapeQuotes(JsonDumps(f.cols, f.rows[i], RowAsFloat(f)))

\* df['data'] = ...; df['tag'] = table_name; df['date_time'] if absent;
\* df = df[['data', 'date_time', 'tag']]
attach_metadata(f, table_name, now) ==
    IF \E i \in 1..Len(f.rows) : \E j \in 1..Len(f.cols) : ~JsonEncodable(f.rows[i][j])
    THEN Raised(f, "TypeError")   \* Object of type Timestamp is not JSON serializable
    ELSE Frame(<<"data", "date_time", "tag">>,
               <<"object",
                 IF HasCol(f, "date_time") THEN f.dtypes[ColIdx(f, "date_time")]
                 ELSE "datetime64",
                 "object">>,
               [i \in 1..Len(f.rows) |->
                  <<VStr(Payload(f, i)),
                    IF HasCol(f, "date_time") THEN f.rows[i][ColIdx(f, "date_time")]
                    ELSE VTs(now),
                    VStr(<<table_name>>)>>])

(***************************************************************************)
(* transform_data: the stages in program order.  now is the value of       *)
(* pd.to_datetime('now').                                                  *)
(***************************************************************************)
\* variant: the status filter runs before the aggregation
Stages1to4_FilterFirst(f) == aggregate_data(filter_data(normalize_data(clean_data(f))))

Stages1to4(f) == filter_data(aggregate_data(normalize_data(clean_data(f))))

\* the eight stages before the payload is built
StagesBeforePayload(f) ==
    validate_data(map_fields(remove_duplicates(convert_data_types(Stages1to4(f)))))

\* variant: the tag is the name of the sink table, not of the source table
transform_data_SinkTag(f, table_name, now) ==
    LET s8 == StagesBeforePayload(f)
    IN IF s8.err # "" THEN s8 ELSE attach_metadata(s8, "grupox", now)

transform_data(f, table_name, now) ==
    LET s8 == StagesBeforePayload(f)
    IN IF s8.err # "" THEN s8 ELSE attach_metadata(s8, table_name, now)

(***************************************************************************)
(* The source database: the tables private_schema can hold.                *)
(***************************************************************************)
T_a == <<"a">>
T_b == <<"b">>
T_active == ACTIVE
T_Active == <<"A", "c", "t", "i", "v", "e">>
T_inactive == <<"i", "n", "a", "c", "t", "i", "v", "e">>
T_Bob == <<"B", "o", "b">>
T_its == <<"i", "t", "'", "s">>
T_x == <<"x">>
T_jan5 == SubSeq(Strftime(5), 1, 10)
T_jan6 == SubSeq(Strftime(6), 1, 10)

OrdersCols == <<"status", "amount", "category", "date_created">>
\* the two-row orders batch of the end-to-end scenario
OrdersRows ==
    << <<VStr(T_active), VInt(500), VStr(T_a), VStr(T_jan5)>>,
       <<VStr(T_inactive), VInt(10), VStr(T_a), VStr(T_jan6)>> >>

Catalog ==
    [orders |-> [cols |-> OrdersCols, rows |-> OrdersRows],
     users |-> [cols |-> <<"name", "status", "seen">>,
                rows |-> << <<VStr(T_Bob), VStr(T_inactive), VTs(5)>>,
                            <<Null, VStr(T_active), VTs(5)>>,
                            <<VStr(T_its), VStr(T_Active), VTs(6)>> >>],
     payments |-> [cols |-> <<"amount">>,
                   rows |-> << <<VInt(0 - 1)>>, <<VInt(0)>>, <<VInt(AMOUNT_MAX + 1)>> >>],
     events |-> [cols |-> <<"id", "date_time">>,
                 rows |-> << <<VInt(1), VStr(T_jan5)>>, <<VInt(2), VStr(T_x)>> >>],
     empty |-> [cols |-> <<"id">>, rows |-> <<>>]]

TableNames == DOMAIN Catalog

\* listings of private_schema: distinct table names, in any order
Listings == UNION {Perms(S) : S \in {X \in SUBSET TableNames : Cardinality(X) <= MaxTables}}

(***************************************************************************)
(* The sink: rows of grupox.                                               *)
(***************************************************************************)
\* one VALUES tuple of load_data_to_ClickHouse: ('{data}', '{date_time}', '{tag}')
SinkRow(row) == [data |-> row[1].s, date_time |-> row[2], tag |-> row[3].s[1]]

RowsTagged(rows, tag) == SelectSeq(rows, LAMBDA r : r.tag = tag)

\* variant: a table counts as loaded only when the sink holds a row for each of its
\* source rows
check_existing_records_full(rows, tag) ==
    Len(RowsTagged(rows, tag)) > 0 /\ Len(RowsTagged(rows, tag)) >= Len(Catalog[tag].rows)

\* variant: the count is compared with 1 instead of 0
check_existing_records_gt1(rows, tag) == Len(RowsTagged(rows, tag)) > 1

\* SELECT COUNT(*) FROM grupox WHERE tag = '{tag}'; return result > 0
check_existing_records(rows, tag) == Len(RowsTagged(rows, tag)) > 0

\* the rows an INSERT of frame f adds
InsertRows(f) == [i \in 1..Len(f.rows) |-> SinkRow(f.rows[i])]

RECURSIVE LoadedFrom(_, _, _)
\* the rows load_data_to_ClickHouse appends for the records of table T from row
\* pos on, transformed and deduplicated in batches of b rows, up to the first
\* batch on which transform_data raises
LoadedFrom(T, pos, b) ==
    LET all == Catalog[T].rows
        rows == SubSeq(all, pos + 1, IF pos + b < Len(all) THEN pos + b ELSE Len(all))
        out == transform_data(DataFrame(Catalog[T].cols, rows), T, 0)
    IN IF rows = <<>> \/ out.err # "" THEN <<>>
       ELSE InsertRows(remove_duplicates(out)) \o LoadedFrom(T, pos + Len(rows), b)

LoadedRowsOf(T, b) == LoadedFrom(T, 0, b)

\* what grupox may hold when the program is first run: nothing, or rows tagged with
\* one table, some or all of those its records give in batches of b
SinkContents(b) ==
    {<<>>} \cup UNION {{SubSeq(LoadedRowsOf(T, b), 1, k) : k \in 1..Len(LoadedRowsOf(T, b))} :
                        T \in TableNames}

(***************************************************************************)
(* Initial state.                                                          *)
(***************************************************************************)
NoFrame == Frame(<<>>, <<>>, <<>>)
NoExc == [kind |-> "", func |-> "", attempts |-> 0]
NoInput == [table |-> "", cols |-> <<>>, rows |-> <<>>, now |-> 0]
\* store_in_supabase not called
NoStore == [df |-> <<>>, batch_size |-> 0, i |-> 0, conn |-> "none", cursor |-> "unbound",
            err |-> "", txn |-> <<>>, dest |-> <<>>, dest0 |-> <<>>, lost |-> 0, leaked |-> 0]

NoStages == [clean |-> NoFrame, norm |-> NoFrame, valid |-> NoFrame, pre |-> NoFrame]

Ev(e, a) == [ev |-> e, arg |-> a, n |-> 0]
EvN(e, a, n) == [ev |-> e, arg |-> a, n |-> n]

Init ==
    /\ pc = "Idle"
    /\ run = 0
    /\ batchSize \in 1..MaxBatchSize
    /\ srcTables \in Listings
    /\ tables = <<>>
    /\ ti = 0
    /\ cursorPos = 0
    /\ df = NoFrame
    /\ fn = ""
    /\ retries = 0
    /\ wtrace = <<>>
    /\ conn = "none"
    /\ client = "none"
    /\ exc = NoExc
    /\ sink \in SinkContents(batchSize)
    /\ sinkAtStart = sink
    /\ yielded = <<>>
    /\ trace = <<>>
    /\ tin = NoInput
    /\ tout = NoFrame
    /\ sout = NoStages
    /\ store = NoStore

(***************************************************************************)
(* retry_on_failure.wrapper, one step per loop iteration part.             *)
(*   w_loop   : at `while retries < MAX_RETRIES`                           *)
(*   w_sleep  : in the except clause, before time.sleep(RETRY_DELAY)       *)
(*   w_return : the wrapper has returned func's result                     *)
(*   w_raise  : the wrapper has raised its aggregated exception            *)
(***************************************************************************)
\* the caller invokes a function decorated with @retry_on_failure
CallWrapped(name) ==
    /\ fn' = name
    /\ retries' = 0
    /\ wtrace' = <<>>
    /\ pc' = "w_loop"

\* the wrapper's frame is gone once the caller has its result or exception
WrapperGone ==
    /\ fn' = ""
    /\ retries' = 0
    /\ wtrace' = <<>>

\* variant: one attempt too many
LoopCondition_Inclusive == retries <= MAX_RETRIES

\* the loop condition of the wrapper
LoopCondition == retries < MAX_RETRIES

\* variant: the result of func is not returned, the loop goes on
WrapperCallOk_NoReturn ==
    /\ pc = "w_loop"
    /\ retries < MAX_RETRIES
    /\ wtrace' = Append(wtrace, "ok")
    /\ pc' = "w_loop"
    /\ UNCHANGED <<run, batchSize, srcTables, tables, ti, cursorPos, df, fn, retries,
                   conn, client, exc, sink, sinkAtStart, yielded, trace, tin, tout, sout, store>>

\* try: return func(*args, **kwargs)  -- func returns
WrapperCallOk ==
    /\ pc = "w_loop"
    /\ LoopCondition
    /\ wtrace' = Append(wtrace, "ok")
    /\ pc' = "w_return"
    /\ UNCHANGED <<run, batchSize, srcTables, tables, ti, cursorPos, df, fn, retries,
                   conn, client, exc, sink, sinkAtStart, yielded, trace, tin, tout, sout, store>>

\* func raises: except Exception: retries += 1; logging.error(...)
WrapperCallFail ==
    /\ pc = "w_loop"
    /\ LoopCondition
    /\ retries' = retries + 1
    /\ wtrace' = Append(wtrace, "fail")
    /\ pc' = "w_sleep"
    /\ UNCHANGED <<run, batchSize, srcTables, tables, ti, cursorPos, df, fn,
                   conn, client, exc, sink, sinkAtStart, yielded, trace, tin, tout, sout, store>>

\* time.sleep(RETRY_DELAY), then back to the loop condition
WrapperSleep ==
    /\ pc = "w_sleep"
    /\ wtrace' = Append(wtrace, "sleep")
    /\ pc' = "w_loop"
    /\ UNCHANGED <<run, batchSize, srcTables, tables, ti, cursorPos, df, fn, retries,
                   conn, client, exc, sink, sinkAtStart, yielded, trace, tin, tout, sout, store>>

\* the exception raised after the loop
Exhausted(name) == [kind |-> "Exception", func |-> name, attempts |-> MAX_RETRIES]

\* loop left: logging.critical(...); raise Exception(f"Function ... failed after ...")
WrapperExhausted ==
    /\ pc = "w_loop"
    /\ ~LoopCondition
    /\ exc' = Exhausted(fn)
    /\ wtrace' = Append(wtrace, "raise")
    /\ pc' = "w_raise"
    /\ UNCHANGED <<run, batchSize, srcTables, tables, ti, cursorPos, df, fn, retries,
                   conn, client, sink, sinkAtStart, yielded, trace, tin, tout, sout, store>>

(***************************************************************************)
(* etl_process.                                                            *)
(***************************************************************************)
envVars == <<batchSize, srcTables>>
wrapperVars == <<fn, retries, wtrace>>
harnessVars == <<tin, tout, sout, store>>

\* pd.to_datetime('now'): the day of the run
Now == run

\* the table of the current loop iteration
table_name == tables[ti]

Raise(kind, name) == [kind |-> kind, func |-> name, attempts |-> 0]

\* etl_process is called: conn = connect_to_supabase() is entered
StartRun ==
    /\ pc \in {"Idle", "Done", "Fatal"}
    /\ run < MaxRuns
    /\ run' = run + 1
    /\ CallWrapped("connect_to_supabase")
    /\ tables' = <<>>
    /\ ti' = 0
    /\ cursorPos' = 0
    /\ df' = NoFrame
    /\ conn' = "none"
    /\ client' = "none"
    /\ exc' = NoExc
    /\ sinkAtStart' = sink
    /\ yielded' = <<>>
    /\ trace' = <<>>
    /\ UNCHANGED <<envVars, sink, harnessVars>>

\* conn = connect_to_supabase() returned; clickhouse_client = connect_to_clickhouse()
\* is entered
SupabaseConnected ==
    /\ pc = "w_return"
    /\ fn = "connect_to_supabase"
    /\ conn' = "open"
    /\ CallWrapped("connect_to_clickhouse")
    /\ trace' = Append(trace, Ev("open", "conn"))
    /\ UNCHANGED <<run, envVars, tables, ti, cursorPos, df, client, exc, sink,
                   sinkAtStart, yielded, harnessVars>>

\* clickhouse_client = connect_to_clickhouse() returned; the try block is entered
ClickhouseConnected ==
    /\ pc = "w_return"
    /\ fn = "connect_to_clickhouse"
    /\ client' = "open"
    /\ WrapperGone
    /\ pc' = "ensure"
    /\ trace' = Append(trace, Ev("open", "client"))
    /\ UNCHANGED <<run, envVars, tables, ti, cursorPos, df, conn, exc, sink,
                   sinkAtStart, yielded, harnessVars>>

\* variant: the connect calls sit inside the try block and the error is swallowed
ConnectFailed_Swallowed ==
    /\ pc = "w_raise"
    /\ fn' = ""
    /\ retries' = 0
    /\ wtrace' = <<>>
    /\ pc' = "ensure"
    /\ trace' = Append(trace, [ev |-> "raise", arg |-> fn, n |-> 0])
    /\ UNCHANGED <<run, batchSize, srcTables, tables, ti, cursorPos, df, conn, client, exc,
                   sink, sinkAtStart, yielded, tin, tout, sout, store>>

\* a connect call raised after its retries: lines 40-41 are outside the try block,
\* the exception leaves etl_process at once
ConnectFailed ==
    /\ pc = "w_raise"
    /\ WrapperGone
    /\ pc' = "Fatal"
    /\ trace' = Append(trace, Ev("raise", fn))
    /\ UNCHANGED <<run, envVars, tables, ti, cursorPos, df, conn, client, exc, sink,
                   sinkAtStart, yielded, harnessVars>>

\* variant: the error is logged and the loop over the tables goes on
Abort_Continue(kind, name) ==
    /\ exc' = [kind |-> kind, func |-> name, attempts |-> 0]
    /\ pc' = "for"
    /\ trace' = Append(trace, [ev |-> "raise", arg |-> name, n |-> 0])

\* an exception inside the try block: control goes to the finally clause
Abort(kind, name) ==
    /\ exc' = Raise(kind, name)
    /\ pc' = "finally"
    /\ trace' = Append(trace, Ev("raise", name))

\* ensure_clickhouse_table(clickhouse_client)
EnsureTable ==
    /\ pc = "ensure"
    /\ \/ /\ pc' = "list"
          /\ trace' = Append(trace, Ev("ensure", "grupox"))
          /\ exc' = exc
       \/ Abort("Exception", "ensure_clickhouse_table")
    /\ UNCHANGED <<run, envVars, tables, ti, cursorPos, df, wrapperVars, conn, client,
                   sink, sinkAtStart, yielded, harnessVars>>

\* tables = list_supabase_tables(conn)
ListTables ==
    /\ pc = "list"
    /\ \/ /\ tables' = srcTables
          /\ pc' = "for"
          /\ trace' = Append(trace, Ev("list", ""))
          /\ exc' = exc
       \/ /\ Abort("psycopg2.Error", "list_supabase_tables")
          /\ tables' = tables
    /\ UNCHANGED <<run, envVars, ti, cursorPos, df, wrapperVars, conn, client,
                   sink, sinkAtStart, yielded, harnessVars>>

\* variant: the loop over the tables ends after the first table
ForTable_FirstOnly ==
    /\ pc = "for"
    /\ IF ti < Len(tables) /\ ti < 1
       THEN ti' = ti + 1 /\ pc' = "check"
       ELSE ti' = ti /\ pc' = "finally"
    /\ UNCHANGED <<run, envVars, tables, cursorPos, df, wrapperVars, conn, client, exc,
                   sink, sinkAtStart, yielded, trace, harnessVars>>

\* for table_name in tables: the next table, or the end of the loop
ForTable ==
    /\ pc = "for"
    /\ IF ti < Len(tables)
       THEN ti' = ti + 1 /\ pc' = "check"
       ELSE ti' = ti /\ pc' = "finally"
    /\ UNCHANGED <<run, envVars, tables, cursorPos, df, wrapperVars, conn, client, exc,
                   sink, sinkAtStart, yielded, trace, harnessVars>>

\* variant: the result of the check is ignored and the table is always extracted
CheckExisting_NoSkip ==
    /\ pc = "check"
    /\ \/ /\ pc' = "extract"
          /\ trace' = Append(trace, EvN("check", table_name,
                                        Len(RowsTagged(sink, table_name))))
          /\ exc' = exc
       \/ Abort("Exception", "check_existing_records")
    /\ UNCHANGED <<run, envVars, tables, ti, cursorPos, df, wrapperVars, conn, client,
                   sink, sinkAtStart, yielded, harnessVars>>

\* if check_existing_records(clickhouse_client, 'grupox', table_name): continue
CheckExisting ==
    /\ pc = "check"
    /\ \/ /\ pc' = IF check_existing_records(sink, table_name) THEN "for" ELSE "extract"
          /\ trace' = Append(trace,
                             EvN(IF check_existing_records(sink, table_name)
                                 THEN "skip" ELSE "check", table_name,
                                 Len(RowsTagged(sink, table_name))))
          /\ exc' = exc
       \/ Abort("Exception", "check_existing_records")
    /\ UNCHANGED <<run, envVars, tables, ti, cursorPos, df, wrapperVars, conn, client,
                   sink, sinkAtStart, yielded, harnessVars>>

\* extract_data_from_supabase, first next(): cursor.execute(query)
ExecuteQuery ==
    /\ pc = "extract"
    /\ \/ /\ cursorPos' = 0
          /\ yielded' = <<>>
          /\ pc' = "fetch"
          /\ trace' = Append(trace, Ev("execute", table_name))
          /\ exc' = exc
       \/ /\ Abort("psycopg2.Error", "extract_data_from_supabase")
          /\ UNCHANGED <<cursorPos, yielded>>
    /\ UNCHANGED <<run, envVars, tables, ti, df, wrapperVars, conn, client,
                   sink, sinkAtStart, harnessVars>>

\* variant: a fetch returns one row more than asked for
fetchmany_OneMore(rows, pos, size) ==
    SubSeq(rows, pos + 1, IF pos + size + 1 < Len(rows) THEN pos + size + 1 ELSE Len(rows))

\* cursor.fetchmany(size): the next size rows of the result, fewer at its end
fetchmany(rows, pos, size) ==
    SubSeq(rows, pos + 1, IF pos + size < Len(rows) THEN pos + size ELSE Len(rows))

\* rows = cursor.fetchmany(BATCH_SIZE); if not rows: break; yield pd.DataFrame(...)
FetchBatch ==
    /\ pc = "fetch"
    /\ \/ LET rows == fetchmany(Catalog[table_name].rows, cursorPos, batchSize)
          IN /\ cursorPos' = cursorPos + Len(rows)
             /\ IF rows = <<>>
                THEN /\ pc' = "for"
                     /\ trace' = Append(trace, Ev("exhausted", table_name))
                     /\ UNCHANGED <<df, yielded>>
                ELSE /\ pc' = "transform"
                     /\ df' = DataFrame(Catalog[table_name].cols, rows)
                     /\ yielded' = Append(yielded, rows)
                     /\ trace' = Append(trace, EvN("extracted", table_name, Len(rows)))
             /\ exc' = exc
       \/ /\ Abort("psycopg2.Error", "extract_data_from_supabase")
          /\ UNCHANGED <<cursorPos, df, yielded>>
    /\ UNCHANGED <<run, envVars, tables, ti, wrapperVars, conn, client,
                   sink, sinkAtStart, harnessVars>>

\* variant: the batch goes from transform straight to the load
TransformBatch_SkipDedup ==
    /\ pc = "transform"
    /\ LET out == transform_data(df, table_name, Now)
       IN IF out.err = ""
          THEN /\ df' = remove_duplicates(out)
               /\ pc' = "load"
               /\ trace' = Append(trace, Ev("transformed", table_name))
               /\ exc' = exc
          ELSE /\ Abort(out.err, "transform_data")
               /\ df' = df
    /\ UNCHANGED <<run, envVars, tables, ti, cursorPos, wrapperVars, conn, client,
                   sink, sinkAtStart, yielded, harnessVars>>

\* transformed_df = transform_data(batch_df, table_name)
TransformBatch ==
    /\ pc = "transform"
    /\ LET out == transform_data(df, table_name, Now)
       IN IF out.err = ""
          THEN /\ df' = out
               /\ pc' = "dedup"
               /\ trace' = Append(trace, Ev("transformed", table_name))
               /\ exc' = exc
          ELSE /\ Abort(out.err, "transform_data")
               /\ df' = df
    /\ UNCHANGED <<run, envVars, tables, ti, cursorPos, wrapperVars, conn, client,
                   sink, sinkAtStart, yielded, harnessVars>>

\* transformed_df = remove_duplicates(transformed_df)
DeduplicateBatch ==
    /\ pc = "dedup"
    /\ df' = remove_duplicates(df)
    /\ pc' = "load"
    /\ trace' = Append(trace, Ev("deduplicated", table_name))
    /\ UNCHANGED <<run, envVars, tables, ti, cursorPos, wrapperVars, conn, client, exc,
                   sink, sinkAtStart, yielded, harnessVars>>

\* load_data_to_clickhouse(clickhouse_client, transformed_df): the name is not bound
\* (clickhouse_utils defines load_data_to_ClickHouse), the call raises NameError and
\* nothing reaches the sink
LoadBatch ==
    /\ pc = "load"
    /\ Abort("NameError", "load_data_to_clickhouse")
    /\ UNCHANGED <<run, envVars, tables, ti, cursorPos, df, wrapperVars, conn, client,
                   sink, sinkAtStart, yielded, harnessVars>>

\* variant: the connection is closed at the end of the try block, not in a finally
Finally_OnSuccessOnly ==
    /\ pc = "finally"
    /\ conn' = IF exc = NoExc THEN "closed" ELSE conn
    /\ pc' = IF exc = NoExc THEN "Done" ELSE "Fatal"
    /\ trace' = IF exc = NoExc THEN Append(trace, Ev("close", "conn")) ELSE trace
    /\ UNCHANGED <<run, envVars, tables, ti, cursorPos, df, wrapperVars, client, exc,
                   sink, sinkAtStart, yielded, harnessVars>>

\* variant: the cleanup of a failed run empties the sink
Finally_Truncate ==
    /\ pc = "finally"
    /\ conn' = "closed"
    /\ pc' = IF exc = NoExc THEN "Done" ELSE "Fatal"
    /\ sink' = IF exc = NoExc THEN sink ELSE <<>>
    /\ trace' = Append(trace, [ev |-> "close", arg |-> "conn", n |-> 0])
    /\ UNCHANGED <<run, batchSize, srcTables, tables, ti, cursorPos, df, fn, retries, wtrace,
                   client, exc, sinkAtStart, yielded, tin, tout, sout, store>>

\* finally: conn.close(); then normal return, or the exception leaves etl_process
Finally ==
    /\ pc = "finally"
    /\ conn' = "closed"
    /\ pc' = IF exc = NoExc THEN "Done" ELSE "Fatal"
    /\ trace' = Append(trace, Ev("close", "conn"))
    /\ UNCHANGED <<run, envVars, tables, ti, cursorPos, df, wrapperVars, client, exc,
                   sink, sinkAtStart, yielded, harnessVars>>

Next ==
    \/ StartRun
    \/ WrapperCallOk
    \/ WrapperCallFail
    \/ WrapperSleep
    \/ WrapperExhausted
    \/ SupabaseConnected
    \/ ClickhouseConnected
    \/ ConnectFailed
    \/ EnsureTable
    \/ ListTables
    \/ ForTable
    \/ CheckExisting
    \/ ExecuteQuery
    \/ FetchBatch
    \/ TransformBatch
    \/ DeduplicateBatch
    \/ LoadBatch
    \/ Finally

Spec == Init /\ [][Next]_vars

\* etl_process is one thread of straight-line code: once called, it goes on to its
\* next step as long as it has one
Running == pc \notin {"Idle", "Done", "Fatal"}

\* the steps of a run other than the transform of a batch
RunStep ==
    \/ WrapperCallOk \/ WrapperCallFail \/ WrapperSleep \/ WrapperExhausted
    \/ SupabaseConnected \/ ClickhouseConnected \/ ConnectFailed
    \/ EnsureTable \/ ListTables \/ ForTable \/ CheckExisting
    \/ ExecuteQuery \/ FetchBatch \/ DeduplicateBatch \/ LoadBatch \/ Finally

\* weak fairness of TransformBatch, with its enabling condition written out: the
\* step is enabled exactly when pc = "transform"
TransformFair == []<>(pc # "transform") \/ []<><<TransformBatch>>_vars

\* a called etl_process keeps running; when it is called is left open
SpecFair == Spec /\ WF_vars(RunStep) /\ TransformFair

(***************************************************************************)
(* transform_data as a pure function: a harness that draws a batch from    *)
(* bounded sets of rows and applies the transform to it.                   *)
(***************************************************************************)
Schemas ==
    {[table |-> "orders", cols |-> OrdersCols,
      cells |-> <<{VStr(T_active), VStr(T_inactive), Null},
                  {VInt(500), VInt(10)},
                  {VStr(T_a), VStr(T_b)},
                  {VStr(T_jan5), VStr(T_jan6)}>>],
     [table |-> "payments", cols |-> <<"amount">>,
      cells |-> <<{VInt(AMOUNT_MIN - 1), VFloat(AMOUNT_MIN * 100 - 1), VInt(AMOUNT_MIN),
                   VInt(AMOUNT_MAX), VFloat(AMOUNT_MAX * 100 + 1), VInt(AMOUNT_MAX + 1),
                   Null}>>],
     [table |-> "users", cols |-> <<"name", "status", "seen">>,
      cells |-> <<{VStr(T_Bob), VStr(T_its), Null},
                  {VStr(T_Active), VStr(T_inactive)},
                  {VTs(5)}>>],
     [table |-> "events", cols |-> <<"id", "date_time">>,
      cells |-> <<{VInt(1), VInt(2)}, {VStr(T_jan5), VStr(T_x), Null}>>]}

RowsOf(sc) ==
    {r \in [1..Len(sc.cols) -> UNION Range(sc.cells)] :
        \A j \in 1..Len(sc.cols) : r[j] \in sc.cells[j]}

\* the batches of schema sc: up to MaxRows rows, each cell drawn from its set
BatchesOf(sc) == SeqsUpTo(RowsOf(sc), MaxRows)

InitT ==
    /\ pc = "Idle"
    /\ run = 0
    /\ batchSize = 1
    /\ srcTables = <<>>
    /\ tables = <<>>
    /\ ti = 0
    /\ cursorPos = 0
    /\ df = NoFrame
    /\ fn = ""
    /\ retries = 0
    /\ wtrace = <<>>
    /\ conn = "none"
    /\ client = "none"
    /\ exc = NoExc
    /\ sink = <<>>
    /\ sinkAtStart = <<>>
    /\ yielded = <<>>
    /\ trace = <<>>
    /\ \E sc \in Schemas : \E rows \in BatchesOf(sc) : \E now \in 1..MaxRuns :
           tin = [table |-> sc.table, cols |-> sc.cols, rows |-> rows, now |-> now]
    /\ tout = NoFrame
    /\ sout = NoStages
    /\ store = NoStore

\* transformed_df = transform_data(pd.DataFrame(rows, columns=cols), table_name)
ApplyTransform ==
    /\ tin # NoInput
    /\ tout = NoFrame
    /\ tout' = transform_data(DataFrame(tin.cols, tin.rows), tin.table, tin.now)
    /\ UNCHANGED <<etlVars, tin, sout, store>>

\* the stages applied on their own to the same batch: clean_data, normalize_data
\* after clean_data, validate_data, and the stages up to the payload
ApplyStages ==
    /\ tin # NoInput
    /\ sout = NoStages
    /\ sout' = LET F == DataFrame(tin.cols, tin.rows)
               IN [clean |-> clean_data(F),
                   norm |-> normalize_data(clean_data(F)),
                   valid |-> validate_data(F),
                   pre |-> StagesBeforePayload(F)]
    /\ UNCHANGED <<etlVars, tin, tout, store>>

\* load_data_to_ClickHouse(client, remove_duplicates(transformed_df)), called by its
\* own name: one INSERT of a VALUES tuple per record; when the statement fails the
\* sink may have taken any leading part of its rows
ApplyLoad ==
    /\ pc = "Idle"
    /\ tout # NoFrame
    /\ tout.err = ""
    /\ df' = remove_duplicates(tout)
    /\ \/ sink' = sink \o InsertRows(df') /\ pc' = "l_return"
       \/ /\ \E k \in 0..Len(InsertRows(df')) : sink' = sink \o SubSeq(InsertRows(df'), 1, k)
          /\ pc' = "l_raise"
    /\ UNCHANGED <<run, batchSize, srcTables, tables, ti, cursorPos, fn, retries, wtrace,
                   conn, client, exc, sinkAtStart, yielded, trace, harnessVars>>

NextT == ApplyTransform \/ ApplyStages \/ ApplyLoad

SpecT == InitT /\ [][NextT]_vars

(***************************************************************************)
(* extract_data_from_supabase as a generator on its own: a harness that    *)
(* iterates it to its end over a table of the catalogue,                   *)
(*   for batch_df in extract_data_from_supabase(conn, table_name): pass    *)
(***************************************************************************)
\* the generator is created over an open connection for one of the listed tables
InitX ==
    /\ pc = "extract"
    /\ run = 1
    /\ batchSize \in 1..MaxBatchSize
    /\ srcTables \in Listings
    /\ tables = srcTables
    /\ ti \in 1..Len(tables)
    /\ cursorPos = 0
    /\ df = NoFrame
    /\ fn = ""
    /\ retries = 0
    /\ wtrace = <<>>
    /\ conn = "open"
    /\ client = "none"
    /\ exc = NoExc
    /\ sink = <<>>
    /\ sinkAtStart = <<>>
    /\ yielded = <<>>
    /\ trace = <<>>
    /\ tin = NoInput
    /\ tout = NoFrame
    /\ sout = NoStages
    /\ store = NoStore

\* the consumer has taken the batch and asks the generator for the next one: control
\* returns into the while loop after the yield
ResumeExtract ==
    /\ pc = "transform"
    /\ pc' = "fetch"
    /\ UNCHANGED <<run, envVars, tables, ti, cursorPos, df, wrapperVars, conn, client, exc,
                   sink, sinkAtStart, yielded, trace, harnessVars>>

NextX == ExecuteQuery \/ FetchBatch \/ ResumeExtract

SpecX == InitX /\ [][NextX]_vars

(***************************************************************************)
(* Properties.                                                             *)
(***************************************************************************)
Last(s) == s[Len(s)]
CountOf(s, x) == Cardinality({i \in 1..Len(s) : s[i] = x})
Events(e, a) == {i \in 1..Len(trace) : trace[i].ev = e /\ trace[i].arg = a}
Happened(e) == \E i \in 1..Len(trace) : trace[i].ev = e
Terminal == pc \in {"Done", "Fatal"}
ConnectNames == {"connect_to_supabase", "connect_to_clickhouse"}

\* C1: when a run of etl_process has ended (Done or Fatal), every connection it
\* opened, source connection and sink client, has been closed.
C1_OpenedConnectionsClosed ==
    Terminal => (conn # "open" /\ client # "open")

\* C2: in a run that follows another, every table T that already has rows tagged
\* T in the sink when the run starts gets no query, no batch extracted and no call
\* of the loader, and the sink rows tagged T stay exactly those present when the
\* run started.
C2_LoadedAtMostOnce ==
    \A T \in TableNames :
        RowsTagged(sinkAtStart, T) # <<>> =>
            /\ RowsTagged(sink, T) = RowsTagged(sinkAtStart, T)
            /\ Events("execute", T) = {}
            /\ Events("extracted", T) = {}
            /\ (ti > 0 /\ tables[ti] = T) => pc \notin {"extract", "fetch", "transform", "dedup", "load"}

\* a second run has ended normally after skipping, as the first did, a table whose
\* rows are in the sink
C2_Witness ==
    /\ run = 2
    /\ pc = "Done"
    /\ \E T \in Range(tables) : RowsTagged(sinkAtStart, T) # <<>> /\ Events("skip", T) # {}

\* the extraction of table_name has just ended without error: every batch of it has
\* gone through the loop body
JustFinished(T) ==
    /\ pc = "for"
    /\ trace # <<>>
    /\ Last(trace) = Ev("exhausted", T)

\* C3 as stated: right after the orchestrator has finished loading table T without
\* error, check_existing_records(sink, 'grupox', T) is true.
C3_CheckTrueAfterLoad ==
    \A T \in TableNames : JustFinished(T) => check_existing_records(sink, T)

\* C4: a wrapped operation that failed on every invocation was invoked exactly
\* MAX_RETRIES times when the wrapper ends, and the wrapper ends by raising the
\* aggregated exception naming the operation and the attempt count, never by
\* returning.
C4_ExhaustionRaises ==
    (pc \in {"w_return", "w_raise"} /\ CountOf(wtrace, "ok") = 0) =>
        /\ pc = "w_raise"
        /\ CountOf(wtrace, "fail") = MAX_RETRIES
        /\ exc.kind = "Exception"
        /\ exc.func = fn
        /\ fn \in ConnectNames
        /\ exc.attempts = MAX_RETRIES

\* the wrapper has raised after its attempts all failed
C4_Witness == pc = "w_raise" /\ CountOf(wtrace, "fail") = MAX_RETRIES

\* C5: the wrapper invokes the operation at most MAX_RETRIES times; when it returns,
\* the invocation that succeeded is the last one made, it is the only success, it
\* follows retries failures, and no exception is raised.
C5_FirstSuccessReturns ==
    /\ CountOf(wtrace, "ok") + CountOf(wtrace, "fail") <= MAX_RETRIES
    /\ pc = "w_return" =>
          /\ Last(wtrace) = "ok"
          /\ CountOf(wtrace, "ok") = 1
          /\ CountOf(wtrace, "fail") = retries
          /\ retries < MAX_RETRIES
          /\ exc = NoExc
    /\ CountOf(wtrace, "ok") > 0 => pc = "w_return"

\* the wrapper has returned the result of its third invocation
C5_Witness == pc = "w_return" /\ retries = MAX_RETRIES - 1

\* C6: every pause of the wrapper is followed by a further invocation of the
\* wrapped operation: back at the loop condition after a pause, the loop goes on.
C6_PauseThenAttempt ==
    (pc = "w_loop" /\ wtrace # <<>> /\ Last(wtrace) = "sleep") => LoopCondition

\* C7: when a connect call fails after its retries, the run ends Fatal with the
\* wrapper's exception and has ensured no table, listed nothing, extracted nothing
\* and appended nothing.
C7_ConnectFailureAborts ==
    (Terminal /\ exc.func \in ConnectNames) =>
        /\ pc = "Fatal"
        /\ exc = Exhausted(exc.func)
        /\ ~Happened("ensure")
        /\ ~Happened("list")
        /\ ~Happened("check")
        /\ ~Happened("skip")
        /\ ~Happened("execute")
        /\ ~Happened("extracted")
        /\ ~Happened("transformed")
        /\ sink = sinkAtStart

\* the sink client could not be opened, the source connection being open, in a run
\* that started with rows in the sink
C7_Witness ==
    /\ pc = "Fatal"
    /\ exc = Exhausted("connect_to_clickhouse")
    /\ conn = "open"
    /\ sinkAtStart # <<>>

\* an extraction of the current table is in progress or has just ended
Extracting ==
    \/ pc \in {"fetch", "transform", "dedup", "load"}
    \/ (pc = "for" /\ ti > 0 /\ trace # <<>> /\ Last(trace) = Ev("exhausted", tables[ti]))
    \/ (pc = "finally" /\ trace # <<>> /\ Last(trace) = Ev("raise", "extract_data_from_supabase")
         /\ Events("execute", tables[ti]) # {})

\* C8: the batches extract_data_from_supabase yields are non-empty, hold at most
\* BATCH_SIZE rows, and put end to end are the rows fetched so far in cursor order;
\* when the sequence has ended (a fetch returned no row) they are all N rows of the
\* table, none lost and none repeated.
C8_BatchesPartitionTable ==
    Extracting =>
        /\ \A b \in 1..Len(yielded) : Len(yielded[b]) >= 1 /\ Len(yielded[b]) <= batchSize
        /\ Flatten(yielded) = SubSeq(Catalog[tables[ti]].rows, 1, cursorPos)
        /\ pc = "for" => Flatten(yielded) = Catalog[tables[ti]].rows
        /\ pc = "for" => Len(yielded) * batchSize < Len(Catalog[tables[ti]].rows) + batchSize

\* a table whose row count is no multiple of BATCH_SIZE has been extracted to its end
C8_Witness ==
    /\ pc = "for"
    /\ Extracting
    /\ Len(yielded) >= 2
    /\ Len(Last(yielded)) < batchSize

RECURSIVE SumAmounts(_, _)
\* sum of the amounts (column 2) of the rows of category c (column 3), whatever
\* their status
SumAmounts(rows, c) ==
    IF rows = <<>> THEN 0
    ELSE (IF Head(rows)[3] = c THEN Head(rows)[2].n ELSE 0) + SumAmounts(Tail(rows), c)

NoNullRows(rows) == SelectSeq(rows, LAMBDA r : \A j \in 1..Len(r) : ~IsNull(r[j]))

\* json.dumps({"category": <c>, "amount": <n>})
AggregatePayload(c, n) ==
    <<"{", "\"", "category", "\"", ":", " ", "\"">> \o c \o
    <<"\"", ",", " ", "\"", "amount", "\"", ":", " ">> \o IntToText(n) \o <<"}">>

Applied == tin # NoInput /\ tout # NoFrame

\* C9: aggregation runs before the status filter.  The two-row orders batch
\* (active/500/a, inactive/10/a) gives exactly one record, tagged orders, with a
\* non-null date_time and the payload of category a with amount 510; for every
\* batch with status, category and amount fields the output has one record per
\* category of the rows without nulls, holding the sum over all of them whatever
\* their status; and normalisation runs before the filter (status 'Active' is kept).
C9_AggregateBeforeFilter ==
    Applied =>
        /\ (tin.cols = OrdersCols /\ tin.rows = OrdersRows) =>
               /\ tout.err = ""
               /\ Len(tout.rows) = 1
               /\ tout.rows[1][1] = VStr(AggregatePayload(T_a, 510))
               /\ ~IsNull(tout.rows[1][2])
               /\ tout.rows[1][3] = VStr(<<"orders">>)
        /\ tin.cols = OrdersCols =>
               LET kept == NoNullRows(tin.rows)
                   cats == {kept[i][3] : i \in 1..Len(kept)}
               IN /\ tout.err = ""
                  /\ Len(tout.rows) = Cardinality(cats)
                  /\ \A c \in cats :
                        \E i \in 1..Len(tout.rows) :
                            tout.rows[i][1] = VStr(AggregatePayload(c.s, SumAmounts(kept, c)))
        /\ (tin.table = "users" /\ tout.err = "") =>
               Len(tout.rows) =
                   Cardinality({r \in Range(NoNullRows(tin.rows)) : Lower(r[2].s) = ACTIVE})

\* the transform has been applied to the two-row orders batch of the scenario
C9_Witness ==
    /\ Applied
    /\ tin.cols = OrdersCols
    /\ tin.rows = OrdersRows
    /\ Len(tout.rows) = 1

\* C10: every row load_data_to_ClickHouse appends for a transformed batch has a
\* non-null tag, the tag of a catalogued table, and a non-null date_time, a
\* timestamp; a batch on which transform_data raises has no row appended.
C10_SinkRowsStamped ==
    /\ \A i \in 1..Len(sink) :
          /\ sink[i].tag \in TableNames
          /\ ~IsNull(sink[i].date_time)
          /\ sink[i].date_time.k = "ts"
    /\ (tout # NoFrame /\ tout.err # "") => sink = <<>>

\* the loader has returned after appending the two records of a batch without a
\* date_time field of its own: their date_time is the one the transform made
C10_Witness ==
    /\ pc = "l_return"
    /\ Len(sink) = 2
    /\ "date_time" \notin Range(tin.cols)
    /\ sink[1].date_time = VTs(tin.now)


\* the operations of the try block that query the source or the sink
QueryNames ==
    {"list_supabase_tables", "extract_data_from_supabase", "check_existing_records",
     "load_data_to_clickhouse"}

Raises == {i \in 1..Len(trace) : trace[i].ev = "raise"}

\* C11: a failure of the listing, of an extraction query or fetch, of the
\* already-loaded check or of the call that appends is not retried: the retry wrapper is not
\* engaged, the failure is the only one of the run, the error is the one that
\* leaves etl_process, and the only thing the run does after it is to close the
\* source connection: no further batch, table or append.
C11_QueryFailureAborts ==
    \A i \in Raises :
        trace[i].arg \in QueryNames =>
            /\ Cardinality(Raises) = 1
            /\ fn = "" /\ retries = 0 /\ wtrace = <<>>
            /\ exc = Raise(exc.kind, trace[i].arg)
            /\ pc \in {"finally", "Fatal"}
            /\ \A j \in (i + 1)..Len(trace) : trace[j] = Ev("close", "conn")
            /\ pc = "Fatal" <=> i < Len(trace)

\* the fetch of the first batch of the second table of the listing failed, after
\* the first table was checked and extracted to its end
C11_Witness ==
    /\ pc = "Fatal"
    /\ exc.func = "extract_data_from_supabase"
    /\ ti = 2
    /\ Events("exhausted", tables[1]) # {}
    /\ Events("execute", tables[2]) # {}


IsPrefix(a, b) == Len(a) <= Len(b) /\ SubSeq(b, 1, Len(a)) = a

\* C12: no step removes or alters a row already in the sink, and only the step at
\* the loader call could add rows: a failing fetch, a failing loader call, the
\* finally clause and the end of the run leave the rows loaded earlier as they were.
C12_LoadedRowsStay ==
    [][/\ IsPrefix(sink, sink')
       /\ pc # "load" => sink' = sink]_vars

\* the run failed in the middle of the second table of the listing, a batch of it
\* extracted and rows of it left to fetch, and has ended with the rows of the first
\* table, loaded earlier, in the sink
C12_Witness ==
    /\ pc = "Fatal"
    /\ exc.func \in {"extract_data_from_supabase", "load_data_to_clickhouse"}
    /\ ti = 2
    /\ Events("extracted", tables[ti]) # {}
    /\ cursorPos < Len(Catalog[tables[ti]].rows)
    /\ RowsTagged(sink, tables[1]) # <<>>
    /\ sink = sinkAtStart


\* the sink held, when the run started, some and not all of the rows the records
\* of T give: a load of T was begun and not finished
PartlyLoaded(T) ==
    /\ RowsTagged(sinkAtStart, T) # <<>>
    /\ Len(RowsTagged(sinkAtStart, T)) < Len(LoadedRowsOf(T, batchSize))

\* C13: while the sink holds a row tagged T no step adds a row tagged T, and a run
\* that found such a row when it started skips T: it makes no query and extracts
\* no batch of T, whether or not all the rows of T were loaded.  A table whose
\* load was begun and not finished keeps the rows it has and gets no more.
C13_PartialTableSkipped ==
    /\ [][\A T \in TableNames :
             RowsTagged(sink, T) # <<>> => RowsTagged(sink', T) = RowsTagged(sink, T)]_vars
    /\ [](\A T \in TableNames :
             RowsTagged(sinkAtStart, T) # <<>> =>
                /\ Events("check", T) = {}
                /\ Events("execute", T) = {}
                /\ Events("extracted", T) = {}
                /\ (pc = "Done" /\ T \in Range(tables)) => Events("skip", T) # {})

\* a second run has ended normally with orders skipped once more: the sink holds
\* one row of the two that the records of orders give in batches of one
C13_Witness ==
    /\ run = 2
    /\ pc = "Done"
    /\ batchSize = 1
    /\ Events("skip", "orders") # {}
    /\ Len(RowsTagged(sink, "orders")) = 1
    /\ PartlyLoaded("orders")

\* the events of the already-loaded check of table T: "check" when the table goes
\* on to extraction, "skip" when it is skipped; n is the sink's count of rows
\* tagged T at that moment
Checks(T) == Events("check", T) \cup Events("skip", T)

\* C14: within one run a table is extracted exactly when the sink held no row
\* with its tag at the moment of the check; a skipped table gets no extraction
\* query and no sink change; each table is checked once, before its first batch.
C14_ExtractedIffSinkEmpty ==
    /\ [](\A T \in TableNames :
            /\ Cardinality(Checks(T)) <= 1
            /\ \A i \in Events("check", T) :
                  /\ trace[i].n = 0
                  /\ \/ i = Len(trace) /\ pc = "extract"
                     \/ i < Len(trace)
                        /\ trace[i + 1] \in {Ev("execute", T),
                                             Ev("raise", "extract_data_from_supabase")}
            /\ \A i \in Events("skip", T) :
                  /\ trace[i].n > 0
                  /\ Events("execute", T) = {}
                  /\ Events("extracted", T) = {}
                  /\ RowsTagged(sink, T) = RowsTagged(sinkAtStart, T)
            /\ \A j \in Events("execute", T) \cup Events("extracted", T) :
                  \E i \in Events("check", T) : i < j)
    /\ [][pc = "check" => sink' = sink]_vars

\* a run in which the first table was skipped (rows tagged with it in the sink) and the
\* second was checked with an empty tag count and has had a batch extracted
C14_Witness ==
    /\ Len(tables) = 2
    /\ Events("skip", tables[1]) # {}
    /\ Events("check", tables[2]) # {}
    /\ Events("extracted", tables[2]) # {}


\* event i of the run is event e of table (or function) a
Is(i, e, a) == trace[i].ev = e /\ trace[i].arg = a

\* the number of events e of table a among the first i events of the run
CountBefore(e, a, i) == Cardinality({j \in Events(e, a) : j <= i})

\* the position in the listing of the table checked by event i: one more than the
\* number of checks made before it
CheckOrdinal(i) ==
    Cardinality({j \in 1..i : trace[j].ev \in {"check", "skip"}})

\* the events that may directly follow event i in program order
FollowsInOrder(i) ==
    LET T == trace[i].arg
        e == trace[i].ev
        n == trace[i + 1]
        k == CheckOrdinal(i)
        NextTable ==
            \/ n = Ev("raise", "check_existing_records")
            \/ k < Len(tables) /\ n.ev \in {"check", "skip"} /\ n.arg = tables[k + 1]
            \/ k = Len(tables) /\ n = Ev("close", "conn")
        Fetched ==
            \/ Is(i + 1, "extracted", T)
            \/ Is(i + 1, "exhausted", T)
            \/ n = Ev("raise", "extract_data_from_supabase")
    IN CASE e = "list"         -> NextTable
         [] e = "skip"         -> NextTable
         [] e = "exhausted"    -> NextTable
         [] e = "check"        -> n \in {Ev("execute", T),
                                         Ev("raise", "extract_data_from_supabase")}
         [] e = "execute"      -> Fetched
         [] e = "extracted"    -> n \in {Ev("transformed", T), Ev("raise", "transform_data")}
         [] e = "transformed"  -> n = Ev("deduplicated", T)
         [] e = "deduplicated" -> \/ Is(i + 1, "loaded", T)
                                  \/ n = Ev("raise", "load_data_to_ClickHouse")  \* the append failed
         [] e = "loaded"       -> Fetched
         [] OTHER              -> TRUE

\* C15 as stated: tables are processed one at a time in listing order; each batch goes
\* through Extracted, Transformed, Deduplicated, Loaded in that order (the append of
\* load_data_to_ClickHouse returns, or raises and ends the run); batch k of a
\* table is loaded before batch k+1 is fetched, and every batch of a table is
\* loaded before the next table's already-loaded check.
C15_SequentialProgramOrder ==
    /\ \A i \in 1..(Len(trace) - 1) : FollowsInOrder(i)
    /\ ti = CheckOrdinal(Len(trace))
             + (IF pc = "check" \/ Events("raise", "check_existing_records") # {}
                THEN 1 ELSE 0)
    /\ \A i \in 1..Len(trace) :
          LET T == trace[i].arg IN
          /\ trace[i].ev \in {"check", "skip"} =>
                /\ CheckOrdinal(i) <= Len(tables)
                /\ T = tables[CheckOrdinal(i)]
                /\ \A k \in 1..(CheckOrdinal(i) - 1) :
                      /\ CountBefore("loaded", tables[k], i)
                            = CountBefore("extracted", tables[k], i)
                      /\ CountBefore("check", tables[k], i) = 1
                            => CountBefore("exhausted", tables[k], i) = 1
          /\ trace[i].ev = "extracted" =>
                /\ T = tables[CheckOrdinal(i)]
                /\ CountBefore("loaded", T, i) = CountBefore("extracted", T, i) - 1
          /\ trace[i].ev = "loaded" =>
                /\ T = tables[CheckOrdinal(i)]
                /\ CountBefore("loaded", T, i) = CountBefore("extracted", T, i)
                /\ CountBefore("transformed", T, i) = CountBefore("extracted", T, i)
                /\ CountBefore("deduplicated", T, i) = CountBefore("extracted", T, i)

\* the number of rows in the batches of T that the run has extracted
RECURSIVE SumN(_)
SumN(S) == IF S = {} THEN 0
           ELSE LET i == CHOOSE x \in S : TRUE IN trace[i].n + SumN(S \ {i})

\* table T has been taken to its end: every row of it extracted, in batches that
\* were all loaded, and the fetch after the last of them came back empty
Completed(T) ==
    /\ Events("exhausted", T) # {}
    /\ SumN(Events("extracted", T)) = Len(Catalog[T].rows)
    /\ Cardinality(Events("loaded", T)) = Cardinality(Events("extracted", T))
    /\ \A i \in Events("loaded", T) : \E j \in Events("exhausted", T) : i < j

\* the run ended at its first error: one raise, after which it only closed the
\* source connection; the error is that of a retried function that used up its
\* attempts, or that of a function that is not retried
StoppedAtFirstError ==
    /\ exc # NoExc
    /\ Cardinality(Raises) = 1
    /\ \A i \in Raises :
          /\ exc.func = trace[i].arg
          /\ exc = IF exc.func \in ConnectNames THEN Exhausted(exc.func)
                   ELSE Raise(exc.kind, exc.func)
          /\ \A j \in (i + 1)..Len(trace) : trace[j] = Ev("close", "conn")

\* C16: every run of etl_process ends, in Done or in Fatal; in Done every listed
\* table was skipped or has all its batches loaded; in Fatal the run stopped at
\* its first unretried or retry-exhausted error.
C16_RunEndsDoneOrFatal ==
    /\ Running ~> Terminal
    /\ [](pc = "Done" =>
            /\ exc = NoExc /\ Raises = {}
            /\ tables = srcTables
            /\ \A T \in Range(tables) : Events("skip", T) # {} \/ Completed(T))
    /\ [](pc = "Fatal" => StoppedAtFirstError)

\* a second run ended in Done over two tables, one skipped and one taken to its end
\* (its first fetch came back empty)
C16_Witness ==
    /\ pc = "Done"
    /\ run = 2
    /\ Len(tables) = 2
    /\ \E T \in Range(tables) : Events("skip", T) # {}
    /\ \E T \in Range(tables) : Events("check", T) # {} /\ Completed(T)


StagesApplied == tin # NoInput /\ sout # NoStages

\* 0 <= amount <= 1,000,000 for a cell holding a number
AmountInRange(v) ==
    /\ v.k \in {"int", "float"}
    /\ IF v.k = "int" THEN 0 <= v.n /\ v.n <= 1000000
       ELSE 0 <= v.n /\ v.n <= 100000000

\* C17: validate_data keeps a record with an amount field exactly when
\* 0 <= amount <= 1,000,000, bounds included: 0 and 1,000,000 are kept, -0.01, -1,
\* 1,000,000.01 and 1,000,001 are dropped; with no amount field every record is kept.
C17_ValidateKeepsInRange ==
    StagesApplied =>
        LET F == DataFrame(tin.cols, tin.rows)
            a == ColIdx(F, "amount")
            out == sout.valid
            Kept(i) == \E j \in 1..Len(out.rows) : out.rows[j] = F.rows[i]
        IN /\ ~HasCol(F, "amount") => out = F
           /\ HasCol(F, "amount") =>
                 /\ out.err = ""
                 /\ out.cols = F.cols
                 /\ out.rows = SelectSeq(F.rows, LAMBDA r : AmountInRange(r[a]))
                 /\ \A i \in 1..Len(F.rows) :
                       /\ Hundredths(F.rows[i][a]) \in {0, 100000000}
                             /\ ~IsNull(F.rows[i][a]) => Kept(i)
                       /\ Hundredths(F.rows[i][a]) \in {0 - 100, 0 - 1, 100000001, 100000100}
                             => ~Kept(i)

\* validate_data was given amounts 1,000,000 and 1,000,000.01 and kept the first only
C17_Witness ==
    /\ StagesApplied
    /\ tin.rows = << <<VInt(AMOUNT_MAX)>>, <<VFloat(AMOUNT_MAX * 100 + 1)>> >>
    /\ sout.valid.rows = << <<VFloat(AMOUNT_MAX * 100)>> >>

\* C18: normalize_data applied to the output of clean_data yields a batch with no
\* null field in any record and as many records as clean_data's output.
C18_NormalizeKeepsCleanRows ==
    StagesApplied =>
        /\ sout.norm.err = ""
        /\ Len(sout.norm.rows) = Len(sout.clean.rows)
        /\ \A i \in 1..Len(sout.norm.rows) :
              \A j \in 1..Len(sout.norm.cols) : ~IsNull(sout.norm.rows[i][j])
        /\ \A i \in 1..Len(sout.clean.rows) :
              \A j \in 1..Len(sout.clean.cols) : ~IsNull(sout.clean.rows[i][j])

\* a users batch of two rows, one with a null name: clean_data dropped that row,
\* normalize_data lowered the other's text and rendered its timestamp as text
C18_Witness ==
    /\ StagesApplied
    /\ tin.table = "users"
    /\ tin.rows = << <<Null, VStr(T_Active), VTs(5)>>, <<VStr(T_Bob), VStr(T_Active), VTs(5)>> >>
    /\ sout.norm.rows = << <<VStr(Lower(T_Bob)), VStr(T_active), VStr(Strftime(5))>> >>


\* C19: every row load_data_to_ClickHouse appends for a batch transformed as a
\* batch of table T carries tag = T, and rows are appended by the loader only.
C19_AppendedRowsTaggedWithTable ==
    /\ [][\A i \in (Len(sink) + 1)..Len(sink') :
             /\ pc = "Idle" /\ pc' \in {"l_return", "l_raise"}
             /\ sink'[i].tag = tin.table]_vars
    /\ [](\A i \in 1..Len(sink) : sink[i].tag = tin.table /\ sink[i].tag \in TableNames)

\* the loader has returned after appending the records of a two-row batch of users,
\* each tagged users
C19_Witness ==
    /\ pc = "l_return"
    /\ tin.table = "users"
    /\ Len(sink) = 2
    /\ sink[1].tag = "users" /\ sink[2].tag = "users"


(***************************************************************************)
(* Reading a payload back: json.loads for the flat objects json.dumps      *)
(* writes.  A result is [ok, ...]; ok is FALSE where json.loads raises.    *)
(***************************************************************************)
NoParse == [ok |-> FALSE, val |-> Null, rest |-> <<>>]
NoMembers == [ok |-> FALSE, cols |-> <<>>, vals |-> <<>>, rest |-> <<>>]

RECURSIVE ParseChars(_)
\* the text of a JSON string, from after its opening quote to its closing quote; of
\* the escapes only \" \\ and \/ are read, any other one is an invalid escape
ParseChars(s) ==
    IF s = <<>> THEN NoParse
    ELSE IF Head(s) = "\"" THEN [ok |-> TRUE, val |-> VStr(<<>>), rest |-> Tail(s)]
    ELSE IF Head(s) = "\\"
         THEN (IF Len(s) >= 2 /\ s[2] \in {"\"", "\\", "/"}
               THEN LET r == ParseChars(SubSeq(s, 3, Len(s)))
                    IN IF r.ok THEN [r EXCEPT !.val = VStr(<<s[2]>> \o r.val.s)] ELSE NoParse
               ELSE NoParse)
    ELSE LET r == ParseChars(Tail(s))
         IN IF r.ok THEN [r EXCEPT !.val = VStr(<<Head(s)>> \o r.val.s)] ELSE NoParse

RECURSIVE NumberLen(_)
\* the length of the longest prefix of s made of sign, digits and point
NumberLen(s) ==
    IF s # <<>> /\ (IsDigit(Head(s)) \/ Head(s) \in {"-", "."})
    THEN 1 + NumberLen(Tail(s)) ELSE 0

\* a JSON number: an integer, or a decimal with one or two fraction digits
ParseNumber(t) ==
    LET neg == t # <<>> /\ Head(t) = "-"
        u == IF neg THEN Tail(t) ELSE t
        p == IndexOf(u, ".")
        whole == SubSeq(u, 1, p - 1)
        frac == SubSeq(u, p + 1, Len(u))
        h == TextToNat(whole) * 100
             + (IF Len(frac) = 1 THEN 10 * TextToNat(frac) ELSE TextToNat(frac))
    IN IF IsNatText(u) THEN [ok |-> TRUE, val |-> VInt(TextToInt(t))]
       ELSE IF p > 0 /\ IsNatText(whole) /\ IsNatText(frac) /\ Len(frac) <= 2
            THEN [ok |-> TRUE, val |-> VFloat(IF neg THEN 0 - h ELSE h)]
       ELSE [ok |-> FALSE, val |-> Null]

\* one JSON value at the head of s: a string, NaN (read as nan) or a number
ParseValue(s) ==
    IF s = <<>> THEN NoParse
    ELSE IF Head(s) = "\"" THEN ParseChars(Tail(s))
    ELSE IF Len(s) >= 3 /\ SubSeq(s, 1, 3) = <<"N", "a", "N">>
         THEN [ok |-> TRUE, val |-> Null, rest |-> SubSeq(s, 4, Len(s))]
    ELSE LET n == NumberLen(s)
             v == ParseNumber(SubSeq(s, 1, n))
         IN IF v.ok THEN [ok |-> TRUE, val |-> v.val, rest |-> SubSeq(s, n + 1, Len(s))]
            ELSE NoParse

RECURSIVE ParseMembers(_)
\* the members "key": value, ... } of an object, from the first key's opening quote
ParseMembers(s) ==
    IF Len(s) < 5 \/ s[1] # "\"" \/ s[3] # "\"" \/ s[4] # ":" \/ s[5] # " "
    THEN NoMembers
    ELSE LET v == ParseValue(SubSeq(s, 6, Len(s)))
         IN IF ~v.ok \/ v.rest = <<>> THEN NoMembers
            ELSE IF Head(v.rest) = "}"
                 THEN [ok |-> TRUE, cols |-> <<s[2]>>, vals |-> <<v.val>>,
                       rest |-> Tail(v.rest)]
            ELSE IF Len(v.rest) >= 2 /\ v.rest[1] = "," /\ v.rest[2] = " "
                 THEN LET m == ParseMembers(SubSeq(v.rest, 3, Len(v.rest)))
                      IN IF m.ok
                         THEN [m EXCEPT !.cols = <<s[2]>> \o m.cols,
                                        !.vals = <<v.val>> \o m.vals]
                         ELSE NoMembers
            ELSE NoMembers

\* json.loads(s) for a flat object
JsonLoads(s) ==
    IF s = <<>> \/ Head(s) # "{" THEN NoMembers
    ELSE IF Tail(s) = <<"}">> THEN [NoMembers EXCEPT !.ok = TRUE]
    ELSE LET m == ParseMembers(Tail(s))
         IN IF m.ok /\ m.rest = <<>> THEN m ELSE NoMembers

RECURSIVE UnescapeQuotes(_)
\* the single-quote rule undone: s.replace("\\'", "'")
UnescapeQuotes(s) ==
    IF s = <<>> THEN <<>>
    ELSE IF Len(s) >= 2 /\ s[1] = "\\" /\ s[2] = "'"
         THEN <<"'">> \o UnescapeQuotes(SubSeq(s, 3, Len(s)))
    ELSE <<Head(s)>> \o UnescapeQuotes(Tail(s))

\* Python's == between a value read back and the value written
SameValue(a, b) ==
    \/ a.k = "str" /\ b.k = "str" /\ a.s = b.s
    \/ a.k \in {"int", "float"} /\ b.k \in {"int", "float"} /\ Hundredths(a) = Hundredths(b)

\* the mapping read back from text p is that of record i of frame f
ReadsBackAs(p, f, i) ==
    LET m == JsonLoads(p)
    IN /\ m.ok
       /\ m.cols = f.cols
       /\ \A j \in 1..Len(f.cols) : SameValue(m.vals[j], f.rows[i][j])

BothApplied == Applied /\ StagesApplied

\* C20: every record that survives the transform stages gets a payload that is a
\* syntactically valid serialized map, and that payload, with the single-quote
\* escaping undone, reads back as the record's field/value mapping.
C20_PayloadRoundTrip ==
    (BothApplied /\ sout.pre.err = "") =>
        /\ tout.err = ""
        /\ Len(tout.rows) = Len(sout.pre.rows)
        /\ \A i \in 1..Len(tout.rows) :
              /\ JsonLoads(tout.rows[i][1].s).ok
              /\ ReadsBackAs(UnescapeQuotes(tout.rows[i][1].s), sout.pre, i)


\* the positions of etl_process inside its try block and its finally
InTry == pc \in {"ensure", "list", "for", "check", "extract", "fetch", "transform",
                 "dedup", "load", "finally"}

\* the functions whose error can leave the try block
TryNames == {"ensure_clickhouse_table", "list_supabase_tables", "check_existing_records",
             "extract_data_from_supabase", "transform_data", "load_data_to_clickhouse"}

\* C21: once etl_process is in its try block the source connection is closed
\* exactly once on every exit path, the normal one and that of an error of any
\* function called in the block; nothing of the run happens after the close.
C21_SourceClosedOnceOnExit ==
    /\ InTry => (conn = "open" /\ Events("close", "conn") = {})
    /\ Cardinality(Events("close", "conn")) <= 1
    /\ \A i \in Events("close", "conn") : i = Len(trace) /\ Terminal /\ conn = "closed"
    /\ conn = "closed" => (Terminal /\ Events("close", "conn") # {})
    /\ (Terminal /\ Events("open", "client") # {}) =>
          /\ conn = "closed"
          /\ Cardinality(Events("close", "conn")) = 1
          /\ pc = "Fatal" => \E i \in Raises : trace[i].arg \in TryNames
    /\ \A i \in Raises : trace[i].arg \in TryNames =>
          (pc = "finally" /\ conn = "open") \/ (pc = "Fatal" /\ conn = "closed")

\* a run ended by the error of the loading call, with the source connection closed
\* by the one close that follows the raise
C21_Witness ==
    /\ pc = "Fatal"
    /\ exc.func = "load_data_to_clickhouse"
    /\ conn = "closed"
    /\ Len(trace) >= 2
    /\ trace[Len(trace)] = Ev("close", "conn")
    /\ trace[Len(trace) - 1] = Ev("raise", "load_data_to_clickhouse")


\* the number of append calls (client.command of one INSERT, in
\* load_data_to_ClickHouse) the run has made for table T: those that returned, and
\* the one that raised if T is the table it raised on
AppendCalls(T) ==
    Cardinality(Events("loaded", T))
    + (IF ti > 0 /\ T = tables[ti] /\ Events("raise", "load_data_to_ClickHouse") # {}
       THEN 1 ELSE 0)

\* the number of batches of T the extractor has yielded in the run
ExtractedBatches(T) == Cardinality(Events("extracted", T))

\* a batch of the current table has been yielded and has not reached its append
BatchInHand ==
    \/ pc \in {"transform", "dedup", "load"}
    \/ Events("raise", "transform_data") # {}

\* C22 as stated: for every batch the extractor yields the orchestrator issues exactly one
\* append, whatever the number of records that survive the transform, zero
\* included; with no error the appends of a table are as many as its batches.
C22_OneAppendPerBatch ==
    /\ \A T \in TableNames :
          /\ AppendCalls(T) + (IF ti > 0 /\ T = tables[ti] /\ BatchInHand THEN 1 ELSE 0)
                = ExtractedBatches(T)
          /\ Raises = {} /\ ~BatchInHand => Cardinality(Events("loaded", T)) = ExtractedBatches(T)
          /\ \A i \in Events("loaded", T) :
                /\ i > 3
                /\ trace[i - 3].ev = "extracted" /\ trace[i - 3].arg = T
                /\ trace[i - 3].n >= 1
                /\ trace[i].n <= trace[i - 3].n
                /\ CountBefore("loaded", T, i) = CountBefore("extracted", T, i)
    /\ pc = "load" => Len(df.rows) <= Len(Last(yielded))

(***************************************************************************)
(* store_in_supabase under retry_on_failure.  The wrapper is that of       *)
(* retry.py, with the call of func taken step by step.  psycopg2 opens a   *)
(* transaction at the first statement of a connection: the rows of the     *)
(* chunks are in txn until conn.commit() adds them to the table (dest);    *)
(* conn.rollback() and a conn.close() without commit discard them.  A      *)
(* commit that raises has committed nothing.  "db" is an error of the      *)
(* classes the except clause names, "other" any other exception.  conn    *)
(* and cursor are the locals of one call; leaked counts the connections   *)
(* that calls have left open.                                              *)
(***************************************************************************)
notStoreVars == <<run, batchSize, srcTables, tables, ti, cursorPos, df, conn, client,
                  sink, sinkAtStart, yielded, trace, tin, tout, sout>>

\* the DataFrame: n rows, told apart by their index
Rows1To(n) == [k \in 1..n |-> k]

Min(a, b) == IF a < b THEN a ELSE b

\* store_in_supabase(df, table_name, batch_size) is called through its wrapper; the
\* destination table is empty or holds one row of an earlier upload
InitS ==
    /\ pc = "w_loop"
    /\ fn = "store_in_supabase"
    /\ retries = 0
    /\ wtrace = <<>>
    /\ \E n \in 0..MaxRows : \E b \in 1..MaxBatchSize : \E d \in {<<>>, <<0>>} :
          store = [NoStore EXCEPT !.df = Rows1To(n), !.batch_size = b,
                                  !.dest = d, !.dest0 = d]
    /\ run = 0 /\ batchSize = 1 /\ srcTables = <<>> /\ tables = <<>> /\ ti = 0
    /\ cursorPos = 0 /\ df = NoFrame /\ conn = "none" /\ client = "none"
    /\ exc = NoExc /\ sink = <<>> /\ sinkAtStart = <<>>
    /\ yielded = <<>> /\ trace = <<>>
    /\ tin = NoInput /\ tout = NoFrame /\ sout = NoStages

\* while retries < MAX_RETRIES: try: return func(...) -- func is entered: conn = None
StoreEnter ==
    /\ pc = "w_loop"
    /\ fn = "store_in_supabase"
    /\ LoopCondition
    /\ store' = [store EXCEPT !.conn = "none", !.cursor = "unbound", !.i = 0,
                              !.err = "", !.txn = <<>>]
    /\ pc' = "s_parquet"
    /\ UNCHANGED <<notStoreVars, fn, retries, wtrace, exc>>

\* df.to_parquet(parquet_path), before the try: an error leaves func at once
StoreParquet ==
    /\ pc = "s_parquet"
    /\ \/ pc' = "s_connect" /\ store' = store
       \/ pc' = "s_raised" /\ store' = [store EXCEPT !.err = "other"]
    /\ UNCHANGED <<notStoreVars, fn, retries, wtrace, exc>>

\* conn = psycopg2.connect(...): when it raises, conn is still None
StoreConnect ==
    /\ pc = "s_connect"
    /\ \/ pc' = "s_cursor" /\ store' = [store EXCEPT !.conn = "open"]
       \/ pc' = "s_except" /\ store' = [store EXCEPT !.err = "db"]
       \/ pc' = "s_finally" /\ store' = [store EXCEPT !.err = "other"]
    /\ UNCHANGED <<notStoreVars, fn, retries, wtrace, exc>>

\* cursor = conn.cursor(): when it raises, conn is bound and cursor is not
StoreCursor ==
    /\ pc = "s_cursor"
    /\ \/ pc' = "s_create" /\ store' = [store EXCEPT !.cursor = "open"]
       \/ pc' = "s_except" /\ store' = [store EXCEPT !.err = "db"]
       \/ pc' = "s_finally" /\ store' = [store EXCEPT !.err = "other"]
    /\ UNCHANGED <<notStoreVars, fn, retries, wtrace, exc>>

\* cursor.execute(create_table_query)
StoreCreate ==
    /\ pc = "s_create"
    /\ \/ pc' = "s_insert" /\ store' = store
       \/ pc' = "s_except" /\ store' = [store EXCEPT !.err = "db"]
       \/ pc' = "s_finally" /\ store' = [store EXCEPT !.err = "other"]
    /\ UNCHANGED <<notStoreVars, fn, retries, wtrace, exc>>

\* df.iloc[i:i + batch_size]
Chunk == SubSeq(store.df, store.i + 1, Min(store.i + store.batch_size, Len(store.df)))

\* variant: the connection is in autocommit mode, each chunk is in the table at once
StoreInsertChunk_Autocommit ==
    /\ pc = "s_insert"
    /\ store.i < Len(store.df)
    /\ \/ /\ pc' = "s_insert"
          /\ store' = [store EXCEPT !.dest = store.dest \o Chunk,
                                    !.i = store.i + store.batch_size]
       \/ pc' = "s_except" /\ store' = [store EXCEPT !.err = "db"]
       \/ pc' = "s_finally" /\ store' = [store EXCEPT !.err = "other"]
    /\ UNCHANGED <<notStoreVars, fn, retries, wtrace, exc>>

\* one turn of the loop: execute_values(cursor, insert_query, values, ...)
StoreInsertChunk ==
    /\ pc = "s_insert"
    /\ store.i < Len(store.df)
    /\ \/ /\ pc' = "s_insert"
          /\ store' = [store EXCEPT !.txn = store.txn \o Chunk,
                                    !.i = store.i + store.batch_size]
       \/ pc' = "s_except" /\ store' = [store EXCEPT !.err = "db"]
       \/ pc' = "s_finally" /\ store' = [store EXCEPT !.err = "other"]
    /\ UNCHANGED <<notStoreVars, fn, retries, wtrace, exc>>

\* the loop is over: conn.commit()
StoreCommit ==
    /\ pc = "s_insert"
    /\ store.i >= Len(store.df)
    /\ \/ /\ pc' = "s_finally"
          /\ store' = [store EXCEPT !.dest = store.dest \o store.txn, !.txn = <<>>]
       \/ pc' = "s_except" /\ store' = [store EXCEPT !.err = "db"]
       \/ pc' = "s_finally" /\ store' = [store EXCEPT !.err = "other"]
    /\ UNCHANGED <<notStoreVars, fn, retries, wtrace, exc>>

\* except (DatabaseError, OperationalError): if conn: conn.rollback(); raise
StoreExcept ==
    /\ pc = "s_except"
    /\ store' = IF store.conn = "open"
                THEN [store EXCEPT !.txn = <<>>, !.lost = store.lost + Len(store.txn)]
                ELSE store
    /\ pc' = "s_finally"
    /\ UNCHANGED <<notStoreVars, fn, retries, wtrace, exc>>

\* finally: if conn: cursor.close(); conn.close() -- then func returns (the wrapper
\* returns its result) or the exception goes on to the wrapper.  With conn bound
\* and cursor not, cursor.close() raises UnboundLocalError in place of the pending
\* error and conn.close() is not reached: the connection stays open
StoreFinally ==
    /\ pc = "s_finally"
    /\ store' = IF store.conn = "open" /\ store.cursor = "unbound"
                THEN [store EXCEPT !.err = "other", !.leaked = store.leaked + 1]
                ELSE IF store.conn = "open"
                THEN [store EXCEPT !.conn = "closed", !.cursor = "closed", !.txn = <<>>,
                                   !.lost = store.lost + Len(store.txn)]
                ELSE store
    /\ IF store'.err = ""
       THEN pc' = "w_return" /\ wtrace' = Append(wtrace, "ok")
       ELSE pc' = "s_raised" /\ wtrace' = wtrace
    /\ UNCHANGED <<notStoreVars, fn, retries, exc>>

\* except Exception as e: retries += 1; logging.error(...)
StoreRaised ==
    /\ pc = "s_raised"
    /\ retries' = retries + 1
    /\ wtrace' = Append(wtrace, "fail")
    /\ pc' = "w_sleep"
    /\ UNCHANGED <<notStoreVars, fn, exc, store>>

NextS ==
    \/ StoreEnter
    \/ StoreParquet
    \/ StoreConnect
    \/ StoreCursor
    \/ StoreCreate
    \/ StoreInsertChunk
    \/ StoreCommit
    \/ StoreExcept
    \/ StoreFinally
    \/ StoreRaised
    \/ WrapperSleep
    \/ WrapperExhausted

SpecS == InitS /\ [][NextS]_vars

\* C23: an attempt of store_in_supabase that fails commits none of its rows: the
\* table changes only at the commit that follows the last chunk, by one copy of
\* all the rows of the DataFrame.  When the wrapper returns, after any number of
\* failed attempts, the table holds exactly one copy of them; when the wrapper
\* raises after MAX_RETRIES failed attempts it holds none of them.
C23_StoreAllOrNothing ==
    /\ [][store'.dest # store.dest =>
             /\ pc = "s_insert" /\ pc' = "s_finally"
             /\ store.i >= Len(store.df)
             /\ store.dest = store.dest0
             /\ store'.dest = store.dest0 \o store.df
             /\ store'.err = ""]_vars
    /\ [](pc = "w_return" => store.dest = store.dest0 \o store.df)
    /\ [](pc = "w_raise" => /\ store.dest = store.dest0
                            /\ retries = MAX_RETRIES
                            /\ exc = Exhausted("store_in_supabase"))
    /\ [](store.err # "" => store.dest = store.dest0)
    /\ [](pc \in {"w_loop", "w_sleep", "w_return", "w_raise", "s_raised"} => store.txn = <<>>)

\* the wrapper has returned after two failed attempts, at least one of which had
\* inserted a chunk of a DataFrame of two rows or more: the table holds its
\* earlier row and one copy of the DataFrame
C23_Witness ==
    /\ pc = "w_return"
    /\ retries = 2
    /\ store.lost > 0
    /\ Len(store.df) >= 2
    /\ store.batch_size = 1
    /\ store.dest = <<0>> \o store.df

====
